---------------------------- MODULE Spec2Model ----------------------------
(***************************************************************************)
(* Model of src/app.py, the "Amigo Secreto" Streamlit application.         *)
(*                                                                         *)
(* One script run (main) loads the whole JSON document, renders one page,  *)
(* applies at most one button handler to the loaded dictionary and, when   *)
(* the handler mutates it, writes the whole dictionary back.  The handlers *)
(* are modelled as operators over the loaded dictionary; the actions below *)
(* compose them with load_data and save_data.                              *)
(*                                                                         *)
(*   Spec      runs the script runs of one session one after the other,    *)
(*             over the participant lifecycle.                             *)
(*   SpecAdmin runs the script runs of two sessions one after the other,   *)
(*             with the whole creator panel.                               *)
(*   SpecConc  interleaves the script runs of two sessions at the level of *)
(*             the lock and file operations of load_data and save_data.    *)
(*   SpecScope runs the creator panel of two sessions on two groups.       *)
(*   SpecRace  is SpecConc with the automatic draw.                        *)
(*   SpecDraw  runs one session's draw one shuffle at a time.              *)
(***************************************************************************)
EXTENDS Integers, Sequences, FiniteSets, TLC

VARIABLES
    file,        \* groups.json on disk: [state, doc]
    lock,        \* holder of groups.json.lock ("" when free)
    admin_mode,  \* st.session_state["admin_mode"] of every session
    uuids,       \* identifiers uuid.uuid4() has produced so far
    last,        \* what the latest script run with a button clicked did and showed
    run,         \* per session: the script run in progress (SpecConc)
    issued       \* history: the temporary passwords issued and not yet used

vars == <<file, lock, admin_mode, uuids, last, run, issued>>

(***************************************************************************)
(* Bounds and input universes                                              *)
(***************************************************************************)
\* How many shuffles with a fixed point random.shuffle may return before the
\* first derangement of a draw.
MaxShuffleFailures == 1

\* max_attempts of both draw loops.
max_attempts == 1000

\* Python's None (the value st.selectbox returns for an empty option list)
\* and the key json.dump writes for it.
NoneKey == "<None>"
NullKey == "null"

\* What uuid.uuid4().hex[:8] returns in generate_temp_password.
GeneratedToken == "tk"

\* What the environment supplies to the script runs of a specification:
\* the browser sessions, the identifiers uuid4 can return, the texts typed
\* into the forms, the lines of the participants area (any of them, kept in
\* order), the shuffles with a fixed point that may precede the first
\* derangement of a draw, and the outcomes of the file operations of a save.
Lifecycle ==
    [sessions  |-> {"s1"},
     gids      |-> {"g1"},
     names     |-> {"", " ana ", "Bia"},
     passwords |-> {"", " ", "x1", GeneratedToken},
     customs   |-> {"", " tk "},
     creator_passwords |-> {"", " ", "c1", "c2"},
     group_names |-> {"", "Natal"},
     lines     |-> <<"ana", " Ana", "Bia", " ">>,
     fails     |-> 0..MaxShuffleFailures,
     io        |-> {"ok"}]

\* The inputs of SpecAdmin: two sessions on one group, the creator password
\* and the one it is rotated to.
Administration ==
    [sessions  |-> {"s1", "s2"}, gids |-> {"g1"},
     names     |-> {"Bia"},
     passwords |-> {"x1"},
     customs   |-> {""},
     creator_passwords |-> {"c1", "c2"},
     group_names |-> {"Natal", " Festa "},
     lines     |-> <<"ana", "Bia">>,
     fails     |-> {0},
     io        |-> {"ok"}]

\* The inputs of SpecConc: two sessions, two group ids, every outcome of
\* the file operations.
Concurrency ==
    [sessions  |-> {"s1", "s2"}, gids |-> {"g1", "g2"},
     names     |-> {},
     passwords |-> {"x1"},
     customs   |-> {},
     creator_passwords |-> {"c1"},
     group_names |-> {"Natal"},
     lines     |-> <<"ana", "Bia">>,
     fails     |-> {0},
     io        |-> {"ok", "open_error", "write_error"}]

(***************************************************************************)
(* Strings: str.strip, " ".join(s.split()), str.title, str.lower on the    *)
(* texts above.                                                            *)
(***************************************************************************)
strip(s) ==
    CASE s = " "       -> ""
      [] s = " ana "   -> "ana"
      [] s = " Ana"    -> "Ana"
      [] s = " tk "    -> "tk"
      [] s = " Festa " -> "Festa"
      [] OTHER         -> s

\* " ".join(raw.split()): no text of the model has inner runs of blanks.
join_split(s) == strip(s)

title(s) ==
    CASE s = "ana"  -> "Ana"
      [] s = "bia"  -> "Bia"
      [] OTHER      -> s

lower(s) ==
    CASE s = "Ana"  -> "ana"
      [] s = "Bia"  -> "bia"
      [] OTHER      -> s

(***************************************************************************)
(* Dictionaries and lists                                                  *)
(***************************************************************************)
EmptyMap == [k \in {} |-> ""]

\* dict.pop(k, None)
Pop(m, k) == [x \in DOMAIN m \ {k} |-> m[x]]

\* dict[k] = v
Put(m, k, v) == [x \in DOMAIN m \cup {k} |-> IF x = k THEN v ELSE m[x]]

Range(f) == {f[x] : x \in DOMAIN f}

\* x in list
InList(x, l) == \E i \in 1..Len(l) : l[i] = x

\* [p for p in l if p != x]
RECURSIVE Without(_, _)
Without(l, x) ==
    IF l = <<>> THEN <<>>
    ELSE IF Head(l) = x THEN Without(Tail(l), x)
    ELSE <<Head(l)>> \o Without(Tail(l), x)

\* list.index(x): the first position holding x, 0 when there is none
\* (Python raises ValueError).
index(l, x) ==
    IF InList(x, l) THEN CHOOSE i \in 1..Len(l) : l[i] = x /\ \A j \in 1..(i-1) : l[j] # x
    ELSE 0

\* {k: v for k, v in m.items() if v != x}
WithoutValue(m, x) == [k \in {y \in DOMAIN m : m[y] # x} |-> m[k]]

(***************************************************************************)
(* AuthService                                                             *)
(***************************************************************************)
\* hashlib.sha256(password.encode()).hexdigest(): deterministic, injective
\* on the passwords of the model, never the password itself.
hash_password(password) == <<"sha256", password>>

generate_temp_password == GeneratedToken


(***************************************************************************)
(* DrawEngine: the shuffle loop of both draw buttons                       *)
(***************************************************************************)
Shuffles(names) ==
    {p \in [1..Len(names) -> Range(names)] : Range(p) = Range(names)}

\* A loop test that lets every shuffle pass.
no_fixed_point_untested(assignments, names) ==
    TRUE

\* all(assignments[i] != names[i] for i in range(len(names)))
no_fixed_point(assignments, names) ==
    \A i \in 1..Len(names) : assignments[i] # names[i]

\* The shuffles random.shuffle can produce, by the test of the loop.
Derangements(names)  == {p \in Shuffles(names) : \A i \in 1..Len(names) : p[i] # names[i]}

\* One draw's randomness: `fails` shuffles equal to `bad` and then `good`.
\* The loop does not know which is which: it tests every shuffle.
RECURSIVE shuffle_loop(_, _, _, _, _)
shuffle_loop(names, attempts, fails, bad, good) ==
    LET assignments == IF fails > 0 THEN bad ELSE good IN
    IF no_fixed_point(assignments, names)
    THEN [found |-> TRUE, assignments |-> assignments]          \* break
    ELSE IF attempts + 1 > max_attempts
    THEN [found |-> FALSE, assignments |-> <<>>]                \* st.error; return
    ELSE shuffle_loop(names, attempts + 1, IF fails > 0 THEN fails - 1 ELSE 0, bad, good)

\* {names[i]: assignments[i] for i in range(len(names))}
zip_assignments(names, assignments) ==
    [n \in Range(names) |-> assignments[index(names, n)]]

(***************************************************************************)
(* GroupLifecycle: the button handlers of show_group_page.  Each takes the *)
(* group as loaded and returns the group as the handler leaves it, the     *)
(* message shown, the secret shown (if any) and whether save_data is       *)
(* called.                                                                 *)
(***************************************************************************)
Result(group, msg, ret, save) ==
    [group |-> group, msg |-> msg, ret |-> ret, save |-> save]

Rejected(group, msg) == Result(group, msg, "", FALSE)
Saved(group, msg)    == Result(group, msg, "", TRUE)

\* group.setdefault("pending_passwords", {})
setdefault_pending(group) ==
    IF "pending_passwords" \in DOMAIN group THEN group
    ELSE [f \in DOMAIN group \cup {"pending_passwords"} |->
            IF f = "pending_passwords" THEN EmptyMap ELSE group[f]]

\* st.selectbox(options=group["participants"]): one of the options, None
\* when there is none.
selectbox(group) ==
    IF group.participants = <<>> THEN {NoneKey} ELSE Range(group.participants)

total(group)     == Len(group.participants)
confirmed(group) == Cardinality(DOMAIN group.participants_confirmed)

\* A confirmation that does not look at the pending temporary password.
confirm_flow_ignoring_pending(group, name, password) ==
    IF name \in DOMAIN group.participants_confirmed
    THEN Rejected(group, "AlreadyConfirmed")
    ELSE IF strip(password) = ""
    THEN Rejected(group, "EmptyPassword")
    ELSE Saved([group EXCEPT
                  !.participants_confirmed = Put(@, name, hash_password(password)),
                  !.pending_passwords = Pop(@, name)],
               "Confirmed")

\* "Confirmar" of the confirm form, rendered only while the selected name
\* has no confirmed hash.
confirm_flow(group, name, password) ==
    IF name \in DOMAIN group.participants_confirmed
    THEN Rejected(group, "AlreadyConfirmed")
    ELSE IF strip(password) = ""
    THEN Rejected(group, "EmptyPassword")
    ELSE IF name \in DOMAIN group.pending_passwords
            /\ hash_password(password) # group.pending_passwords[name]
    THEN Rejected(group, "MustUseIssuedPassword")
    ELSE Saved([group EXCEPT
                  !.participants_confirmed = Put(@, name, hash_password(password)),
                  !.pending_passwords = Pop(@, name)],
               "Confirmed")

\* The draw both buttons run once their guards passed.
do_draw(group, fails, bad, good) ==
    LET names == group.participants
        loop  == shuffle_loop(names, 0, fails, bad, good)
    IN  IF ~loop.found
        THEN Rejected(group, "DrawFailed")
        ELSE Saved([group EXCEPT
                      !.assignments = zip_assignments(names, loop.assignments),
                      !.drawn = TRUE],
                   "DrawDone")

\* An automatic draw that turns away a roster of one and lets the empty
\* roster into the loop.
auto_draw_empty_roster(group, fails, bad, good) ==
    IF confirmed(group) # total(group)
    THEN Rejected(group, "NotRendered")
    ELSE IF group.drawn
    THEN Rejected(group, "AlreadyDrawn")
    ELSE IF Len(group.participants) = 1
    THEN Rejected(group, "InsufficientParticipants")
    ELSE do_draw(group, fails, bad, good)

\* "Sortear automaticamente", rendered when confirmed == total and the
\* group is not drawn.
auto_draw(group, fails, bad, good) ==
    IF confirmed(group) # total(group)
    THEN Rejected(group, "NotRendered")
    ELSE IF group.drawn
    THEN Rejected(group, "AlreadyDrawn")
    ELSE IF Len(group.participants) < 2
    THEN Rejected(group, "InsufficientParticipants")
    ELSE do_draw(group, fails, bad, good)

\* A reveal that does not compare the password typed with the stored hash.
reveal_flow_any_password(group, name, password_lookup) ==
    IF ~group.drawn
    THEN Rejected(group, "NotRendered")
    ELSE IF name \notin DOMAIN group.participants_confirmed
    THEN Rejected(group, "NotConfirmed")
    ELSE IF name \in DOMAIN group.assignments
    THEN Result(group, "Revealed", group.assignments[name], FALSE)
    ELSE Rejected(group, "NotDrawnYet")

\* "Mostrar" of the reveal form, rendered only when the group is drawn.
reveal_flow(group, name, password_lookup) ==
    IF ~group.drawn
    THEN Rejected(group, "NotRendered")
    ELSE IF name \notin DOMAIN group.participants_confirmed
    THEN Rejected(group, "NotConfirmed")
    ELSE IF hash_password(password_lookup) # group.participants_confirmed[name]
    THEN Rejected(group, "WrongPassword")
    ELSE IF name \in DOMAIN group.assignments
    THEN Result(group, "Revealed", group.assignments[name], FALSE)
    ELSE Rejected(group, "NotDrawnYet")


(***************************************************************************)
(* The creator panel.  `admin` is admin_flags.get(group_id): the session's *)
(* flag for this group.  The flag is a boolean in the code; the model      *)
(* keeps in its place the password the session typed when it logged in     *)
(* ("" when the flag is absent).                                           *)
(***************************************************************************)
NotAdmin == ""

\* "Entrar no modo administrador", rendered while the flag is off.  Returns
\* the message and the flag afterwards.
creator_login(group, admin, creator_pw_input) ==
    IF admin # NotAdmin
    THEN [msg |-> "NotRendered", admin |-> admin]
    ELSE IF "creator_password_hash" \notin DOMAIN group
    THEN [msg |-> "NoCreatorPassword", admin |-> admin]
    ELSE IF creator_pw_input = ""
    THEN [msg |-> "EmptyCreatorPassword", admin |-> admin]
    ELSE IF hash_password(creator_pw_input) # group.creator_password_hash
    THEN [msg |-> "WrongCreatorPassword", admin |-> admin]
    ELSE [msg |-> "AdminOn", admin |-> creator_pw_input]

\* "Sair do modo administrador", rendered while the flag is on.
creator_logout(admin) ==
    IF admin = NotAdmin
    THEN [msg |-> "NotRendered", admin |-> admin]
    ELSE [msg |-> "AdminOff", admin |-> NotAdmin]

\* A creator draw that does not look at the drawn flag.
creator_draw_again(group, fails, bad, good) ==
    IF Len(group.participants) < 2
    THEN Rejected(group, "InsufficientParticipants")
    ELSE do_draw(group, fails, bad, good)

\* "Sortear agora (criador)"
creator_draw(group, fails, bad, good) ==
    IF group.drawn
    THEN Rejected(group, "AlreadyDrawn")
    ELSE IF Len(group.participants) < 2
    THEN Rejected(group, "InsufficientParticipants")
    ELSE do_draw(group, fails, bad, good)

\* "Salvar novo nome"
save_group_name(group, new_group_name) ==
    LET cleaned_group_name == strip(new_group_name) IN
    IF cleaned_group_name = ""
    THEN Rejected(group, "EmptyGroupName")
    ELSE Saved([group EXCEPT !.name = cleaned_group_name], "GroupRenamed")

\* A clean-up that also runs, and saves, without the confirmation box.
clear_confirmation_unticked(group, participant_to_clear, confirm_clear) ==
    Result([group EXCEPT
              !.participants_confirmed = Pop(@, participant_to_clear),
              !.pending_passwords = Pop(@, participant_to_clear),
              !.assignments = WithoutValue(Pop(@, participant_to_clear),
                                           participant_to_clear)],
           IF confirm_clear THEN "ConfirmationCleared" ELSE "TickToConfirm", "", TRUE)

\* A clean-up that leaves in the assignments those who drew the participant.
clear_confirmation_keeping_givers(group, participant_to_clear, confirm_clear) ==
    IF ~confirm_clear
    THEN Rejected(group, "TickToConfirm")
    ELSE Saved([group EXCEPT
                  !.participants_confirmed = Pop(@, participant_to_clear),
                  !.pending_passwords = Pop(@, participant_to_clear),
                  !.assignments = Pop(@, participant_to_clear)],
               "ConfirmationCleared")

\* "Limpar confirmação"
clear_confirmation(group, participant_to_clear, confirm_clear) ==
    IF ~confirm_clear
    THEN Rejected(group, "TickToConfirm")
    ELSE Saved([group EXCEPT
                  !.participants_confirmed = Pop(@, participant_to_clear),
                  !.pending_passwords = Pop(@, participant_to_clear),
                  !.assignments = WithoutValue(Pop(@, participant_to_clear),
                                               participant_to_clear)],
               "ConfirmationCleared")

\* A reset that clears the flag and keeps the assignments.
reset_draw_keeping_assignments(group, reset_confirm) ==
    IF ~reset_confirm
    THEN Rejected(group, "TickToConfirm")
    ELSE Saved([group EXCEPT !.drawn = FALSE], "DrawReset")

\* "Resetar sorteio"
reset_draw(group, reset_confirm) ==
    IF ~reset_confirm
    THEN Rejected(group, "TickToConfirm")
    ELSE Saved([group EXCEPT !.assignments = EmptyMap, !.drawn = FALSE],
               "DrawReset")

\* An add that does not look at the drawn flag.
add_participant_while_drawn(group, new_participant) ==
    LET name_to_add == strip(new_participant) IN
    IF name_to_add = ""
    THEN Rejected(group, "EmptyName")
    ELSE IF InList(name_to_add, group.participants)
    THEN Rejected(group, "DuplicateName")
    ELSE Saved([group EXCEPT !.participants = Append(@, name_to_add)],
               "ParticipantAdded")

\* "Adicionar participante"
add_participant(group, new_participant) ==
    LET name_to_add == strip(new_participant) IN
    IF group.drawn
    THEN Rejected(group, "AlreadyDrawn")
    ELSE IF name_to_add = ""
    THEN Rejected(group, "EmptyName")
    ELSE IF InList(name_to_add, group.participants)
    THEN Rejected(group, "DuplicateName")
    ELSE Saved([group EXCEPT !.participants = Append(@, name_to_add)],
               "ParticipantAdded")

\* "Salvar senha do criador"
update_creator_pw(group, new_creator_password, confirm_creator_password) ==
    IF strip(new_creator_password) = ""
    THEN Rejected(group, "EmptyCreatorPassword")
    ELSE IF new_creator_password # confirm_creator_password
    THEN Rejected(group, "PasswordsDiffer")
    ELSE Saved([f \in DOMAIN group \cup {"creator_password_hash"} |->
                  IF f = "creator_password_hash"
                  THEN hash_password(new_creator_password) ELSE group[f]],
               "CreatorPasswordUpdated")

\* "Reiniciar acesso": the temporary password is shown to the creator.
reset_pw(group, participant_to_reset, custom_temp_password, confirm_temp_reset) ==
    IF ~confirm_temp_reset
    THEN Rejected(group, "TickToConfirm")
    ELSE LET temp_password ==
                 IF strip(custom_temp_password) # ""
                 THEN strip(custom_temp_password) ELSE generate_temp_password
         IN  Result([group EXCEPT
                       !.participants_confirmed = Pop(@, participant_to_reset),
                       !.pending_passwords =
                           Put(@, participant_to_reset, hash_password(temp_password))],
                    "TemporaryPassword", temp_password, TRUE)

\* dict[new] = dict.pop(old), when old is a key
MoveKey(m, old, new) ==
    IF old \in DOMAIN m THEN Put(Pop(m, old), new, m[old]) ELSE m

\* A rename that copies the confirmed hash to the new name and leaves the
\* old key in place.
rename_participant_keeping_old_key(group, selected_to_rename, new_name, confirm_rename) ==
    LET cleaned_name == strip(new_name) IN
    IF ~confirm_rename
    THEN Rejected(group, "TickToConfirm")
    ELSE IF group.drawn
    THEN Rejected(group, "AlreadyDrawn")
    ELSE IF cleaned_name = ""
    THEN Rejected(group, "EmptyName")
    ELSE IF InList(cleaned_name, group.participants)
    THEN Rejected(group, "DuplicateName")
    ELSE IF index(group.participants, selected_to_rename) = 0
    THEN Rejected(group, "ValueError")
    ELSE Saved([group EXCEPT
                  !.participants[index(group.participants, selected_to_rename)] = cleaned_name,
                  !.participants_confirmed =
                      IF selected_to_rename \in DOMAIN @
                      THEN Put(@, cleaned_name, @[selected_to_rename]) ELSE @,
                  !.pending_passwords = MoveKey(@, selected_to_rename, cleaned_name)],
               "ParticipantRenamed")

\* "Renomear"
rename_participant(group, selected_to_rename, new_name, confirm_rename) ==
    LET cleaned_name == strip(new_name) IN
    IF ~confirm_rename
    THEN Rejected(group, "TickToConfirm")
    ELSE IF group.drawn
    THEN Rejected(group, "AlreadyDrawn")
    ELSE IF cleaned_name = ""
    THEN Rejected(group, "EmptyName")
    ELSE IF InList(cleaned_name, group.participants)
    THEN Rejected(group, "DuplicateName")
    ELSE IF index(group.participants, selected_to_rename) = 0
    THEN Rejected(group, "ValueError")   \* list.index(None) raises
    ELSE LET moved == MoveKey(group.assignments, selected_to_rename, cleaned_name) IN
         Saved([group EXCEPT
                  !.participants[index(group.participants, selected_to_rename)] = cleaned_name,
                  !.participants_confirmed = MoveKey(@, selected_to_rename, cleaned_name),
                  !.pending_passwords = MoveKey(@, selected_to_rename, cleaned_name),
                  !.assignments =
                      [k \in DOMAIN moved |->
                         IF moved[k] = selected_to_rename THEN cleaned_name ELSE moved[k]]],
               "ParticipantRenamed")

\* A removal that does not look at the drawn flag.
remove_participant_while_drawn(group, selected_to_remove, confirm_delete) ==
    IF ~confirm_delete
    THEN Rejected(group, "TickToConfirm")
    ELSE Saved([group EXCEPT
                  !.participants = Without(@, selected_to_remove),
                  !.participants_confirmed = Pop(@, selected_to_remove),
                  !.pending_passwords = Pop(@, selected_to_remove),
                  !.assignments = WithoutValue(Pop(@, selected_to_remove),
                                               selected_to_remove)],
               "ParticipantRemoved")

\* "Excluir participante"
remove_participant(group, selected_to_remove, confirm_delete) ==
    IF group.drawn
    THEN Rejected(group, "AlreadyDrawn")
    ELSE IF ~confirm_delete
    THEN Rejected(group, "TickToConfirm")
    ELSE Saved([group EXCEPT
                  !.participants = Without(@, selected_to_remove),
                  !.participants_confirmed = Pop(@, selected_to_remove),
                  !.pending_passwords = Pop(@, selected_to_remove),
                  !.assignments = WithoutValue(Pop(@, selected_to_remove),
                                               selected_to_remove)],
               "ParticipantRemoved")


(***************************************************************************)
(* show_home_page: "Criar grupo"                                           *)
(***************************************************************************)
\* The loop over participants_input.splitlines(): the names kept and the
\* duplicates found.
RECURSIVE normalize_participants(_, _, _, _)
normalize_participants(lines, normalized_participants, duplicate_names, seen_normalized) ==
    IF lines = <<>>
    THEN [participants |-> normalized_participants, duplicates |-> duplicate_names]
    ELSE LET cleaned    == join_split(Head(lines))
             normalized == title(cleaned)
             normalized_lower == lower(normalized)
         IN  IF cleaned = ""
             THEN normalize_participants(Tail(lines), normalized_participants,
                                         duplicate_names, seen_normalized)
             ELSE IF normalized_lower \in seen_normalized
             THEN normalize_participants(Tail(lines), normalized_participants,
                                         duplicate_names \cup {normalized}, seen_normalized)
             ELSE normalize_participants(Tail(lines),
                                         Append(normalized_participants, normalized),
                                         duplicate_names,
                                         seen_normalized \cup {normalized_lower})

new_group(group_name, creator_password_input, normalized_participants) ==
    [name |-> group_name,
     creator_password_hash |-> hash_password(creator_password_input),
     participants |-> normalized_participants,
     participants_confirmed |-> EmptyMap,
     pending_passwords |-> EmptyMap,
     drawn |-> FALSE,
     assignments |-> EmptyMap]

\* A creation that keeps the first of coinciding names and goes on.
create_group_dropping_duplicates(data, group_name, creator_password_input, lines, gid) ==
    LET n == normalize_participants(lines, <<>>, {}, {}) IN
    IF group_name = ""
    THEN [data |-> data, msg |-> "EmptyGroupName", duplicates |-> {}, save |-> FALSE]
    ELSE IF strip(creator_password_input) = ""
    THEN [data |-> data, msg |-> "EmptyCreatorPassword", duplicates |-> {}, save |-> FALSE]
    ELSE IF Len(n.participants) < 2
    THEN [data |-> data, msg |-> "TooFewParticipants", duplicates |-> {}, save |-> FALSE]
    ELSE [data |-> Put(data, gid, new_group(group_name, creator_password_input, n.participants)),
          msg |-> "GroupCreated", duplicates |-> {}, save |-> TRUE]

\* Returns the dictionary afterwards, the message, the duplicates listed
\* and whether save_data is called.  gid is uuid.uuid4().hex.
create_group(data, group_name, creator_password_input, lines, gid) ==
    LET n == normalize_participants(lines, <<>>, {}, {}) IN
    IF group_name = ""
    THEN [data |-> data, msg |-> "EmptyGroupName", duplicates |-> {}, save |-> FALSE]
    ELSE IF strip(creator_password_input) = ""
    THEN [data |-> data, msg |-> "EmptyCreatorPassword", duplicates |-> {}, save |-> FALSE]
    ELSE IF n.duplicates # {}
    THEN [data |-> data, msg |-> "DuplicateNames", duplicates |-> n.duplicates, save |-> FALSE]
    ELSE IF Len(n.participants) < 2
    THEN [data |-> data, msg |-> "TooFewParticipants", duplicates |-> {}, save |-> FALSE]
    ELSE [data |-> Put(data, gid, new_group(group_name, creator_password_input, n.participants)),
          msg |-> "GroupCreated", duplicates |-> {}, save |-> TRUE]

(***************************************************************************)
(* GroupStore: groups.json                                                 *)
(***************************************************************************)
NoFile   == [state |-> "absent", doc |-> EmptyMap]
TornFile == [state |-> "torn",   doc |-> EmptyMap]   \* opened "w", not fully written

\* json.dump writes a None key as "null"; of two equal keys json.load keeps
\* the one written last.
json_key(k) == IF k = NoneKey THEN NullKey ELSE k

dump_keys(m) ==
    [k \in {json_key(x) : x \in DOMAIN m} |->
        IF k = NullKey /\ NoneKey \in DOMAIN m THEN m[NoneKey] ELSE m[k]]

json_dump(data) ==
    [g \in DOMAIN data |->
        [f \in DOMAIN data[g] |->
            IF f \in {"participants_confirmed", "pending_passwords", "assignments"}
            THEN dump_keys(data[g][f]) ELSE data[g][f]]]

\* What a read of groups.json returns: {} when the file is missing, empty or
\* not JSON.
load_data(f) == IF f.state = "json" THEN f.doc ELSE EmptyMap

\* open(DATA_FILE, "w"): the file is truncated, unless open raises OSError.
open_w(f, io) == IF io = "open_error" THEN f ELSE TornFile

\* A dump that writes nothing.
dump_nothing(f, data, io) ==
    f

\* json.dump(data, f) into the file just truncated, and its close: the whole
\* dictionary, unless the write raises OSError.
dump(f, data, io) ==
    IF io = "ok" THEN [state |-> "json", doc |-> json_dump(data)] ELSE f

\* save_data(data) with the I/O outcome `io`: "ok", "open_error" (open raises
\* OSError) or "write_error" (json.dump raises OSError after the file was
\* truncated).
save_data(f, data, io) ==
    IF io = "open_error" THEN f ELSE dump(open_w(f, io), data, io)

\* The lock of groups.json.lock: "" when free, the session that holds it,
\* NoLock when the filelock package is not installed (FileLock is None).
NoLock == "<no filelock>"

\* An acquire that does not wait.
acquire_without_waiting(l) ==
    TRUE

\* `with lock:` enters when nobody holds the lock.
acquire(l) ==
    l = ""

(***************************************************************************)
(* Script runs, one after the other (Spec).  main: data = load_data();     *)
(* the page of the query parameter group_id; the handler of the button     *)
(* clicked; save_data(data) inside the handler.                            *)
(*                                                                         *)
(* Streamlit runs the script again on every interaction.  `last` is what   *)
(* the latest run with a button clicked did and showed; a run without a    *)
(* click (Render: the user picks a name, types a password) shows the page  *)
(* without any message, and a button is clicked on such a page.            *)
(***************************************************************************)
AllSessions == {"s1", "s2"}

NoRun ==
    [session |-> "", gid |-> "", op |-> "", arg |-> "", typed |-> "", msg |-> "",
     ret |-> "", saved |-> FALSE, save_error |-> FALSE, duplicates |-> {}]

\* A session with no script run in progress; after a run, what it did.
Idle ==
    [pc |-> "idle", data |-> EmptyMap, op |-> "", gid |-> "", msg |-> "",
     saved |-> FALSE, save_error |-> FALSE, stale |-> FALSE, partial |-> FALSE]

Init ==
    /\ file = NoFile
    /\ lock = ""
    /\ admin_mode = [s \in AllSessions |-> EmptyMap]
    /\ uuids = {}
    /\ last = NoRun
    /\ run = [s \in AllSessions |-> Idle]
    /\ issued = {}

\* The flag of any group of the session taken for the flag of this group.
admin_active_for_any_group(s, gid) ==
    IF DOMAIN admin_mode[s] # {}
    THEN admin_mode[s][CHOOSE g \in DOMAIN admin_mode[s] : TRUE]
    ELSE NotAdmin

\* admin_flags.get(group_id, False)
admin_active(s, gid) ==
    IF gid \in DOMAIN admin_mode[s] THEN admin_mode[s][gid] ELSE NotAdmin

\* The widgets of the creator panel other than the login are rendered only
\* in administrator mode.
creator_panel(group, admin, res) ==
    IF admin = NotAdmin THEN Rejected(group, "NotRendered") ELSE res

\* The randomness one draw may meet: U.fails shuffles that leave the list as
\* it is (the shuffle with every point fixed), then one of the derangements.
DrawRandomness(names, U) ==
    IF Derangements(names) = {}
    THEN {[fails |-> 0, bad |-> names, good |-> names]}
    ELSE {[fails |-> k, bad |-> names, good |-> g] :
            k \in U.fails, g \in Derangements(names)}

IOFor(res, U) == IF res.save THEN U.io ELSE {"ok"}

\* The history of temporary passwords: "Reiniciar acesso" issues one for the
\* participant selected, a confirmation by that name uses it up.
issued_after(gid, op, arg, res, io) ==
    IF op = "reset_pw" /\ res.save /\ io = "ok" /\ arg # NoneKey
    THEN {i \in issued : ~(i[1] = gid /\ i[2] = arg)} \cup {<<gid, arg, res.ret>>}
    ELSE IF op = "confirm" /\ res.save /\ io = "ok"
    THEN {i \in issued : ~(i[1] = gid /\ i[2] = arg)}
    ELSE issued

\* show_group_page(group_id, data) for a group of the loaded dictionary:
\* the run ends with the handler's result `res`.  arg is the name selected
\* and typed the password typed, where the button has them.
group_page(s, gid, op, arg, typed, res, io) ==
    LET data == load_data(file) IN
    /\ file' = IF res.save
               THEN save_data(file, [data EXCEPT ![gid] = res.group], io)
               ELSE file
    /\ last' = [session |-> s, gid |-> gid, op |-> op, arg |-> arg, typed |-> typed,
                msg |-> res.msg, ret |-> res.ret, saved |-> res.save,
                save_error |-> (res.save /\ io # "ok"), duplicates |-> {}]
    /\ issued' = issued_after(gid, op, arg, res, io)
    /\ UNCHANGED <<lock, admin_mode, uuids, run>>

\* The group of the page, after group.setdefault("pending_passwords", {}).
page_group(gid) == setdefault_pending(load_data(file)[gid])

Known(gid) == gid \in DOMAIN load_data(file)

GroupNotFound(s, U) ==
    /\ last = NoRun
    /\ \E gid \in U.gids :
           /\ ~Known(gid)
           /\ last' = [NoRun EXCEPT !.session = s, !.gid = gid, !.op = "open",
                                    !.msg = "GroupNotFound"]
           /\ UNCHANGED <<file, lock, admin_mode, uuids, run, issued>>

Confirm(s, U) ==
    /\ last = NoRun
    /\ \E gid \in U.gids : Known(gid) /\
       \E name \in selectbox(page_group(gid)), password \in U.passwords :
       LET res == confirm_flow(page_group(gid), name, password) IN
       \E io \in IOFor(res, U) : group_page(s, gid, "confirm", name, password, res, io)

AutoDraw(s, U) ==
    /\ last = NoRun
    /\ \E gid \in U.gids : Known(gid) /\
       \E r \in DrawRandomness(page_group(gid).participants, U) :
       LET res == auto_draw(page_group(gid), r.fails, r.bad, r.good) IN
       \E io \in IOFor(res, U) : group_page(s, gid, "auto_draw", "", "", res, io)

Reveal(s, U) ==
    /\ last = NoRun
    /\ \E gid \in U.gids : Known(gid) /\
       \E name \in selectbox(page_group(gid)), password \in U.passwords :
       LET res == reveal_flow(page_group(gid), name, password) IN
       group_page(s, gid, "reveal", name, password, res, "ok")

Login(s, U) ==
    /\ last = NoRun
    /\ \E gid \in U.gids : Known(gid) /\
       \E creator_pw_input \in U.creator_passwords :
       LET res == creator_login(page_group(gid), admin_active(s, gid), creator_pw_input) IN
       /\ admin_mode' = [admin_mode EXCEPT ![s] =
                            IF res.admin = NotAdmin THEN Pop(@, gid) ELSE Put(@, gid, res.admin)]
       /\ last' = [NoRun EXCEPT !.session = s, !.gid = gid, !.op = "login", !.msg = res.msg]
       /\ UNCHANGED <<file, lock, uuids, run, issued>>

Logout(s, U) ==
    /\ last = NoRun
    /\ \E gid \in U.gids : Known(gid) /\
       LET res == creator_logout(admin_active(s, gid)) IN
       /\ admin_mode' = [admin_mode EXCEPT ![s] =
                            IF res.admin = NotAdmin THEN Pop(@, gid) ELSE Put(@, gid, res.admin)]
       /\ last' = [NoRun EXCEPT !.session = s, !.gid = gid, !.op = "logout", !.msg = res.msg]
       /\ UNCHANGED <<file, lock, uuids, run, issued>>

CreatorDraw(s, U) ==
    /\ last = NoRun
    /\ \E gid \in U.gids : Known(gid) /\
       \E r \in DrawRandomness(page_group(gid).participants, U) :
       LET res == creator_panel(page_group(gid), admin_active(s, gid),
                                creator_draw(page_group(gid), r.fails, r.bad, r.good)) IN
       \E io \in IOFor(res, U) : group_page(s, gid, "creator_draw", "", "", res, io)

SaveGroupName(s, U) ==
    /\ last = NoRun
    /\ \E gid \in U.gids : Known(gid) /\
       \E new_group_name \in U.group_names :
       LET res == creator_panel(page_group(gid), admin_active(s, gid),
                                save_group_name(page_group(gid), new_group_name)) IN
       \E io \in IOFor(res, U) : group_page(s, gid, "save_group_name", "", "", res, io)

ClearConfirmation(s, U) ==
    /\ last = NoRun
    /\ \E gid \in U.gids : Known(gid) /\
       \E name \in selectbox(page_group(gid)), tick \in BOOLEAN :
       LET res == creator_panel(page_group(gid), admin_active(s, gid),
                                clear_confirmation(page_group(gid), name, tick)) IN
       \E io \in IOFor(res, U) : group_page(s, gid, "clear_confirmation", name, "", res, io)

ResetDraw(s, U) ==
    /\ last = NoRun
    /\ \E gid \in U.gids : Known(gid) /\
       \E tick \in BOOLEAN :
       LET res == creator_panel(page_group(gid), admin_active(s, gid),
                                reset_draw(page_group(gid), tick)) IN
       \E io \in IOFor(res, U) : group_page(s, gid, "reset_draw", "", "", res, io)

AddParticipant(s, U) ==
    /\ last = NoRun
    /\ \E gid \in U.gids : Known(gid) /\
       \E new_participant \in U.names :
       LET res == creator_panel(page_group(gid), admin_active(s, gid),
                                add_participant(page_group(gid), new_participant)) IN
       \E io \in IOFor(res, U) : group_page(s, gid, "add_participant", "", "", res, io)

UpdateCreatorPw(s, U) ==
    /\ last = NoRun
    /\ \E gid \in U.gids : Known(gid) /\
       \E new_creator_password \in U.creator_passwords,
          confirm_creator_password \in U.creator_passwords :
       LET res == creator_panel(page_group(gid), admin_active(s, gid),
                                update_creator_pw(page_group(gid), new_creator_password,
                                                  confirm_creator_password)) IN
       \E io \in IOFor(res, U) :
          /\ file' = IF res.save
                     THEN save_data(file, [load_data(file) EXCEPT ![gid] = res.group], io)
                     ELSE file
          /\ last' = [NoRun EXCEPT !.session = s, !.gid = gid, !.op = "update_creator_pw",
                                   !.msg = res.msg, !.saved = res.save,
                                   !.save_error = (res.save /\ io # "ok")]
          \* the flag stays on; the password this session supplied last is the new one
          /\ admin_mode' = IF res.save
                           THEN [admin_mode EXCEPT ![s] = Put(@, gid, new_creator_password)]
                           ELSE admin_mode
          /\ UNCHANGED <<lock, uuids, run, issued>>

ResetPw(s, U) ==
    /\ last = NoRun
    /\ \E gid \in U.gids : Known(gid) /\
       \E name \in selectbox(page_group(gid)), custom \in U.customs, tick \in BOOLEAN :
       LET res == creator_panel(page_group(gid), admin_active(s, gid),
                                reset_pw(page_group(gid), name, custom, tick)) IN
       \E io \in IOFor(res, U) : group_page(s, gid, "reset_pw", name, custom, res, io)

RenameParticipant(s, U) ==
    /\ last = NoRun
    /\ \E gid \in U.gids : Known(gid) /\
       \E name \in selectbox(page_group(gid)), new_name \in U.names, tick \in BOOLEAN :
       LET res == creator_panel(page_group(gid), admin_active(s, gid),
                                rename_participant(page_group(gid), name, new_name, tick)) IN
       \E io \in IOFor(res, U) : group_page(s, gid, "rename_participant", name, "", res, io)

RemoveParticipant(s, U) ==
    /\ last = NoRun
    /\ \E gid \in U.gids : Known(gid) /\
       \E name \in selectbox(page_group(gid)), tick \in BOOLEAN :
       LET res == creator_panel(page_group(gid), admin_active(s, gid),
                                remove_participant(page_group(gid), name, tick)) IN
       \E io \in IOFor(res, U) : group_page(s, gid, "remove_participant", name, "", res, io)

\* The texts the participants area can hold: the lines of the environment kept
\* in order.
RECURSIVE SubSeqs(_)
SubSeqs(l) ==
    IF l = <<>> THEN {<<>>}
    ELSE LET rest == SubSeqs(Tail(l)) IN rest \cup {<<Head(l)>> \o r : r \in rest}

CreateGroup(s, U) ==
    /\ last = NoRun
    /\ \E gid \in U.gids \ uuids :
       \E group_name \in U.group_names, creator_password_input \in U.creator_passwords,
          lines \in SubSeqs(U.lines) :
       LET data == load_data(file)
           res  == create_group(data, group_name, creator_password_input, lines, gid)
       IN  \E io \in IOFor(res, U) :
           /\ file' = IF res.save THEN save_data(file, res.data, io) ELSE file
           /\ uuids' = IF res.save THEN uuids \cup {gid} ELSE uuids
           /\ last' = [NoRun EXCEPT !.session = s, !.gid = gid, !.op = "create",
                                    !.msg = res.msg, !.saved = res.save,
                                    !.save_error = (res.save /\ io # "ok"),
                                    !.duplicates = res.duplicates]
           /\ UNCHANGED <<lock, admin_mode, run, issued>>

\* main with no button clicked: load_data, the page, nothing else.
Render(s) ==
    /\ last # NoRun
    /\ last' = NoRun
    /\ UNCHANGED <<file, lock, admin_mode, uuids, run, issued>>

\* The script runs of the participant lifecycle: every button except the
\* two that only touch the group's name and the creator password.
LifecycleRun(s, U) ==
    \/ Render(s)
    \/ CreateGroup(s, U)
    \/ GroupNotFound(s, U)
    \/ Confirm(s, U)
    \/ AutoDraw(s, U)
    \/ Reveal(s, U)
    \/ Login(s, U)
    \/ Logout(s, U)
    \/ CreatorDraw(s, U)
    \/ ClearConfirmation(s, U)
    \/ ResetDraw(s, U)
    \/ AddParticipant(s, U)
    \/ ResetPw(s, U)
    \/ RenameParticipant(s, U)
    \/ RemoveParticipant(s, U)

Next == \E s \in Lifecycle.sessions : LifecycleRun(s, Lifecycle)

Spec == Init /\ [][Next]_vars

\* SpecAdmin: the script runs of two sessions, one after the other, with the
\* creator panel whole.
AdminRun(s, U) ==
    \/ LifecycleRun(s, U)
    \/ SaveGroupName(s, U)
    \/ UpdateCreatorPw(s, U)

NextAdmin == \E s \in Administration.sessions : AdminRun(s, Administration)

SpecAdmin == Init /\ [][NextAdmin]_vars

(***************************************************************************)
(* Two sessions on two groups (SpecScope): creation, the login and logout  *)
(* of the creator panel and its buttons on the draw, the roster and the    *)
(* name, one script run after the other.                                   *)
(***************************************************************************)
Scoping ==
    [sessions  |-> {"s1", "s2"}, gids |-> {"g1", "g2"},
     names     |-> {"Bia"},
     passwords |-> {},
     customs   |-> {},
     creator_passwords |-> {"c1", "c2"},
     group_names |-> {"Natal"},
     lines     |-> <<"ana", "Bia">>,
     fails     |-> {0},
     io        |-> {"ok"}]

\* The runs of the creator panel that need no participant's password.
ScopeRun(s, U) ==
    \/ Render(s)
    \/ CreateGroup(s, U)
    \/ Login(s, U)
    \/ Logout(s, U)
    \/ CreatorDraw(s, U)
    \/ ResetDraw(s, U)
    \/ AddParticipant(s, U)
    \/ RemoveParticipant(s, U)
    \/ SaveGroupName(s, U)

NextScope == \E s \in Scoping.sessions : ScopeRun(s, Scoping)

SpecScope == Init /\ [][NextScope]_vars

(***************************************************************************)
(* Script runs interleaved (SpecConc).  run[s] is the script run of session *)
(* s: where it is (pc), the dictionary `data` it loaded and its handler    *)
(* mutated, and two records of what happened around it: `stale`, another   *)
(* session's save completed after this run's load; `partial`, this run's   *)
(* load read the file while another session was writing it.                *)
(*                                                                         *)
(*   idle -> load_lock -> load_read -> page -> save_lock -> save_open      *)
(*        -> save_dump -> idle                                             *)
(***************************************************************************)
InitConc ==
    /\ file = NoFile
    /\ lock \in {"", NoLock}
    /\ admin_mode = [s \in AllSessions |-> EmptyMap]
    /\ uuids = {}
    /\ last = NoRun
    /\ run = [s \in AllSessions |-> Idle]
    /\ issued = {}

\* The lock after `with lock:` is left.
release(l) == IF l = NoLock THEN NoLock ELSE ""

\* The runs that have loaded and not yet finished.
Loaded(s) == run[s].pc \in {"page", "save_lock", "save_open", "save_dump"}

\* main: data = load_data(), up to os.path.exists.
Start(s) ==
    /\ run[s].pc = "idle"
    /\ run' = [run EXCEPT ![s] =
                 [Idle EXCEPT !.pc = IF file.state = "absent" THEN "page"
                                     ELSE IF lock = NoLock THEN "load_read"
                                     ELSE "load_lock"]]
    /\ UNCHANGED <<file, lock, admin_mode, uuids, last, issued>>

\* load_data: with lock
LoadAcquire(s) ==
    /\ run[s].pc = "load_lock"
    /\ acquire(lock)
    /\ lock' = s
    /\ run' = [run EXCEPT ![s].pc = "load_read"]
    /\ UNCHANGED <<file, admin_mode, uuids, last, issued>>

\* load_data: open, json.load, and the lock released
LoadRead(s) ==
    /\ run[s].pc = "load_read"
    /\ run' = [run EXCEPT ![s].pc = "page",
                          ![s].data = load_data(file),
                          ![s].partial = (file.state = "torn" /\
                                          \E t \in AllSessions \ {s} : run[t].pc = "save_dump")]
    /\ lock' = release(lock)
    /\ UNCHANGED <<file, admin_mode, uuids, last, issued>>

\* The run goes on to save_data(data), or ends with the message shown.
after_handler(s, op, gid, data, msg, save) ==
    run' = [run EXCEPT ![s] =
              IF save
              THEN [@ EXCEPT !.pc = IF lock = NoLock THEN "save_open" ELSE "save_lock",
                             !.data = data, !.op = op, !.gid = gid, !.msg = msg]
              ELSE [Idle EXCEPT !.op = op, !.gid = gid, !.msg = msg]]

\* A page with no button clicked.
ConcRender(s) ==
    /\ run[s].pc = "page"
    /\ run' = [run EXCEPT ![s] = Idle]
    /\ UNCHANGED <<file, lock, admin_mode, uuids, last, issued>>

\* show_home_page: "Criar grupo" on the dictionary loaded
ConcCreateGroup(s, U) ==
    /\ run[s].pc = "page"
    /\ \E gid \in U.gids \ uuids :
       \E group_name \in U.group_names, creator_password_input \in U.creator_passwords,
          lines \in SubSeqs(U.lines) :
       LET res == create_group(run[s].data, group_name, creator_password_input, lines, gid)
       IN  /\ after_handler(s, "create", gid, res.data, res.msg, res.save)
           /\ uuids' = IF res.save THEN uuids \cup {gid} ELSE uuids
    /\ UNCHANGED <<file, lock, admin_mode, last, issued>>

\* show_group_page: "Confirmar" on the dictionary loaded
ConcConfirm(s, U) ==
    /\ run[s].pc = "page"
    /\ \E gid \in DOMAIN run[s].data :
       LET group == setdefault_pending(run[s].data[gid]) IN
       \E name \in selectbox(group), password \in U.passwords :
       LET res == confirm_flow(group, name, password) IN
       after_handler(s, "confirm", gid, [run[s].data EXCEPT ![gid] = res.group],
                     res.msg, res.save)
    /\ UNCHANGED <<file, lock, admin_mode, uuids, last, issued>>

\* save_data: with lock
SaveAcquire(s) ==
    /\ run[s].pc = "save_lock"
    /\ acquire(lock)
    /\ lock' = s
    /\ run' = [run EXCEPT ![s].pc = "save_open"]
    /\ UNCHANGED <<file, admin_mode, uuids, last, issued>>

\* save_data: open(DATA_FILE, "w"); on OSError st.error, and the run ends
SaveOpen(s, U) ==
    /\ run[s].pc = "save_open"
    /\ \E io \in U.io \cap {"ok", "open_error"} :
          /\ file' = open_w(file, io)
          /\ IF io = "ok"
             THEN /\ run' = [run EXCEPT ![s].pc = "save_dump"]
                  /\ lock' = lock
             ELSE /\ run' = [run EXCEPT ![s] = [@ EXCEPT !.pc = "idle", !.data = EmptyMap,
                                                          !.save_error = TRUE]]
                  /\ lock' = release(lock)
    /\ UNCHANGED <<admin_mode, uuids, last, issued>>

\* What the file holds after a dump: without the lock, a dump into a file
\* another session wrote since this one truncated it may leave text that is
\* not JSON.
dump_outcomes(f, data, io) ==
    IF io = "ok" /\ f.state # "torn"
    THEN {dump(f, data, io), TornFile}
    ELSE {dump(f, data, io)}

\* save_data: json.dump and close; the lock released; the run ends
SaveDump(s, U) ==
    /\ run[s].pc = "save_dump"
    /\ \E io \in U.io \cap {"ok", "write_error"} :
       \E f \in dump_outcomes(file, run[s].data, io) :
          /\ file' = f
          /\ run' = [t \in AllSessions |->
                       IF t = s
                       THEN [run[s] EXCEPT !.pc = "idle", !.data = EmptyMap,
                                           !.saved = (io = "ok"),
                                           !.save_error = (io # "ok")]
                       ELSE IF io = "ok" /\ Loaded(t)
                       THEN [run[t] EXCEPT !.stale = TRUE]
                       ELSE run[t]]
    /\ lock' = release(lock)
    /\ UNCHANGED <<admin_mode, uuids, last, issued>>

ConcRun(s, U) ==
    \/ Start(s)
    \/ LoadAcquire(s)
    \/ LoadRead(s)
    \/ ConcRender(s)
    \/ ConcCreateGroup(s, U)
    \/ ConcConfirm(s, U)
    \/ SaveAcquire(s)
    \/ SaveOpen(s, U)
    \/ SaveDump(s, U)

NextConc == \E s \in Concurrency.sessions : ConcRun(s, Concurrency)

SpecConc == InitConc /\ [][NextConc]_vars

(***************************************************************************)
(* Script runs interleaved, with the automatic draw (SpecRace): the runs   *)
(* of SpecConc and "Sortear automaticamente" on the dictionary loaded.     *)
(***************************************************************************)
Racing ==
    [sessions  |-> {"s1", "s2"}, gids |-> {"g1", "g2"},
     names     |-> {},
     passwords |-> {"x1"},
     customs   |-> {},
     creator_passwords |-> {"c1"},
     group_names |-> {"Natal"},
     lines     |-> <<"ana", "Bia">>,
     fails     |-> {0},
     io        |-> {"ok"}]

\* show_group_page: "Sortear automaticamente" on the dictionary loaded
ConcAutoDraw(s, U) ==
    /\ run[s].pc = "page"
    /\ \E gid \in DOMAIN run[s].data :
       LET group == setdefault_pending(run[s].data[gid]) IN
       \E r \in DrawRandomness(group.participants, U) :
       LET res == auto_draw(group, r.fails, r.bad, r.good) IN
       after_handler(s, "auto_draw", gid, [run[s].data EXCEPT ![gid] = res.group],
                     res.msg, res.save)
    /\ UNCHANGED <<file, lock, admin_mode, uuids, last, issued>>

RaceRun(s, U) ==
    \/ ConcRun(s, U)
    \/ ConcAutoDraw(s, U)

NextRace == \E s \in Racing.sessions : RaceRun(s, Racing)

SpecRace == InitConc /\ [][NextRace]_vars

(***************************************************************************)
(* A draw, shuffle by shuffle (SpecDraw).  The handler of a draw button    *)
(* whose guards passed stands in its `while True` loop: run[s] holds the   *)
(* names, and `attempts` as the code counts it.  One session creates the   *)
(* group, confirms, logs in and draws.                                     *)
(***************************************************************************)
Drawing ==
    [sessions  |-> {"s1"}, gids |-> {"g1"},
     names     |-> {},
     passwords |-> {"x1"},
     customs   |-> {},
     creator_passwords |-> {"c1"},
     group_names |-> {"Natal"},
     lines     |-> <<"ana", "Bia">>,
     fails     |-> {0},
     io        |-> {"ok"}]

\* The handler is before a random.shuffle of its loop.
InLoop(s) == run[s].pc = "shuffle"

\* What stands between the click on "Sortear automaticamente" and the loop:
\* the message shown, "" when the loop is entered.
auto_draw_guards(group) ==
    IF confirmed(group) # total(group) THEN "NotRendered"
    ELSE IF group.drawn THEN "AlreadyDrawn"
    ELSE IF Len(group.participants) < 2 THEN "InsufficientParticipants"
    ELSE ""

\* The same for "Sortear agora (criador)".
creator_draw_guards(group, admin) ==
    IF admin = NotAdmin THEN "NotRendered"
    ELSE IF group.drawn THEN "AlreadyDrawn"
    ELSE IF Len(group.participants) < 2 THEN "InsufficientParticipants"
    ELSE ""

\* A draw button is clicked: a message, or names = group["participants"],
\* assignments = names.copy(), attempts = 0 and the loop.
DrawClick(s, U) ==
    /\ last = NoRun
    /\ run[s].pc = "idle"
    /\ \E gid \in U.gids : Known(gid) /\
       \E op \in {"auto_draw", "creator_draw"} :
       LET group == page_group(gid)
           msg   == IF op = "auto_draw" THEN auto_draw_guards(group)
                    ELSE creator_draw_guards(group, admin_active(s, gid))
       IN  IF msg # ""
           THEN /\ last' = [NoRun EXCEPT !.session = s, !.gid = gid, !.op = op, !.msg = msg]
                /\ run' = run
           ELSE /\ run' = [run EXCEPT ![s] =
                             [pc |-> "shuffle", op |-> op, gid |-> gid,
                              names |-> group.participants, attempts |-> 0]]
                /\ last' = last
    /\ UNCHANGED <<file, lock, admin_mode, uuids, issued>>

\* if attempts > max_attempts, after attempts += 1
loop_gives_up(attempts) ==
    attempts > max_attempts

\* One turn of the loop: random.shuffle(assignments); break on a
\* derangement, and the assignments are stored and saved; otherwise
\* attempts += 1 and, past max_attempts, st.error and return.
DrawShuffle(s) ==
    /\ InLoop(s)
    /\ \E assignments \in Shuffles(run[s].names) :
       LET names == run[s].names
           gid   == run[s].gid
           group == page_group(gid)
           done(msg, saved) ==
               /\ run' = [run EXCEPT ![s] = Idle]
               /\ last' = [NoRun EXCEPT !.session = s, !.gid = gid, !.op = run[s].op,
                                        !.msg = msg, !.saved = saved]
       IN  IF no_fixed_point(assignments, names)
           THEN /\ file' = save_data(file,
                              [load_data(file) EXCEPT ![gid] =
                                 [group EXCEPT
                                    !.assignments = zip_assignments(names, assignments),
                                    !.drawn = TRUE]], "ok")
                /\ done("DrawDone", TRUE)
           ELSE IF loop_gives_up(run[s].attempts + 1)
           THEN /\ file' = file
                /\ done("DrawFailed", FALSE)
           ELSE /\ file' = file
                /\ run' = [run EXCEPT ![s].attempts = @ + 1]
                /\ last' = last
    /\ UNCHANGED <<lock, admin_mode, uuids, issued>>

\* The session starts a script run when none is in its loop.
DrawRun(s, U) ==
    \/ run[s].pc = "idle" /\ Render(s)
    \/ run[s].pc = "idle" /\ CreateGroup(s, U)
    \/ run[s].pc = "idle" /\ Confirm(s, U)
    \/ run[s].pc = "idle" /\ Login(s, U)
    \/ DrawClick(s, U)
    \/ DrawShuffle(s)

NextDraw == \E s \in Drawing.sessions : DrawRun(s, Drawing)

SpecDraw == Init /\ [][NextDraw]_vars

(***************************************************************************)
(* The persisted groups and what is said of them                           *)
(***************************************************************************)
Store == load_data(file)

Members(G) == Range(G.participants)

\* assignments has one entry per participant, is onto the participants and
\* maps nobody to themselves.
CompleteDerangement(G) ==
    /\ DOMAIN G.assignments = Members(G)
    /\ Range(G.assignments) = Members(G)
    /\ \A n \in DOMAIN G.assignments : G.assignments[n] # n

\* The entries assignments has are among participants, give no recipient
\* twice and map nobody to themselves.
PartialDerangement(G) ==
    /\ DOMAIN G.assignments \subseteq Members(G)
    /\ Range(G.assignments) \subseteq Members(G)
    /\ \A m, n \in DOMAIN G.assignments : G.assignments[m] = G.assignments[n] => m = n
    /\ \A n \in DOMAIN G.assignments : G.assignments[n] # n

\* C1 as stated: in every reachable state, a drawn group's assignments has
\* exactly one entry per participant, is a bijection over the participants
\* and maps no participant to themselves.
C1_DrawnIsCompleteDerangement ==
    \A gid \in DOMAIN Store : Store[gid].drawn => CompleteDerangement(Store[gid])

\* C1 amended: a drawn group's assignments is always a partial derangement
\* of the participants; the step that sets drawn stores a complete one; and
\* while the group stays drawn a complete one loses entries only in a
\* clear-confirmation.
C1_DrawnIsDerangementUntilCleared ==
    [][\A gid \in DOMAIN Store' :
         LET G == Store'[gid] IN
         /\ G.drawn => PartialDerangement(G)
         /\ (G.drawn /\ ~(gid \in DOMAIN Store /\ Store[gid].drawn))
               => CompleteDerangement(G)
         /\ (G.drawn /\ gid \in DOMAIN Store /\ Store[gid].drawn
                /\ CompleteDerangement(Store[gid]) /\ ~CompleteDerangement(G))
               => last'.op = "clear_confirmation"]_vars

\* A drawn group of three whose assignments lost entries to a
\* clear-confirmation.
C1_Witness ==
    /\ last.op = "clear_confirmation" /\ last.saved
    /\ last.gid \in DOMAIN Store
    /\ Store[last.gid].drawn
    /\ Len(Store[last.gid].participants) = 3
    /\ Cardinality(DOMAIN Store[last.gid].assignments) = 1

\* C2: a draw that succeeds, by the automatic button or by the creator's,
\* finds at least two participants and a group not yet drawn, and in the
\* same step stores for participants[i] the i-th name of a permutation of
\* participants that leaves no index in place, and sets drawn.
C2_DrawStoresDerangement ==
    [][(last'.op \in {"auto_draw", "creator_draw"} /\ last'.msg = "DrawDone")
         => /\ last'.gid \in DOMAIN Store /\ last'.gid \in DOMAIN Store'
            /\ LET G  == Store[last'.gid]
                   G2 == Store'[last'.gid]
                   names == G.participants
               IN  /\ Len(names) >= 2
                   /\ ~G.drawn
                   /\ G2.drawn
                   /\ G2.participants = names
                   /\ DOMAIN G2.assignments = Range(names)
                   /\ \E p \in Shuffles(names) :
                        \A i \in 1..Len(names) :
                           p[i] # names[i] /\ G2.assignments[names[i]] = p[i]]_vars

\* An automatic draw over three participants has just succeeded and the
\* group is drawn.
C2_Witness ==
    /\ last.op = "auto_draw" /\ last.msg = "DrawDone" /\ last.saved
    /\ last.gid \in DOMAIN Store
    /\ Store[last.gid].drawn
    /\ Len(Store[last.gid].participants) = 3

\* C7: a draw succeeds only by the automatic button when every participant
\* of the group has a confirmed hash, or by the creator's button in a session
\* that supplied the creator password.
C7_DrawOnlyWhenAllConfirmedOrCreator ==
    (last.msg = "DrawDone") =>
        /\ last.gid \in DOMAIN Store
        /\ LET G == Store[last.gid] IN
           \/ /\ last.op = "auto_draw"
              /\ \A n \in Members(G) : n \in DOMAIN G.participants_confirmed
           \/ /\ last.op = "creator_draw"
              /\ admin_active(last.session, last.gid) # NotAdmin

\* C8: "Mostrar" shows a recipient only when the group is drawn, the name
\* selected has a confirmed hash, the password typed hashes to it and the
\* name has an assignment, and then shows assignments[name]; otherwise it
\* shows NotConfirmed, WrongPassword or NotDrawnYet (before the draw the
\* form is not on the page) and no recipient.
C8_RevealOnlyToConfirmedOwner ==
    [][(last'.op = "reveal")
         => /\ last'.gid \in DOMAIN Store
            /\ file' = file
            /\ LET G    == Store[last'.gid]
                   name == last'.arg
                   ok   == /\ G.drawn
                           /\ name \in DOMAIN G.participants_confirmed
                           /\ hash_password(last'.typed) = G.participants_confirmed[name]
                           /\ name \in DOMAIN G.assignments
               IN  /\ ok => last'.msg = "Revealed" /\ last'.ret = G.assignments[name]
                   /\ ~ok => last'.ret = ""
                   /\ ~G.drawn => last'.msg = "NotRendered"
                   /\ (G.drawn /\ name \notin DOMAIN G.participants_confirmed)
                         => last'.msg = "NotConfirmed"
                   /\ (G.drawn /\ name \in DOMAIN G.participants_confirmed
                          /\ hash_password(last'.typed) # G.participants_confirmed[name])
                         => last'.msg = "WrongPassword"
                   /\ (G.drawn /\ name \in DOMAIN G.participants_confirmed
                          /\ hash_password(last'.typed) = G.participants_confirmed[name]
                          /\ name \notin DOMAIN G.assignments)
                         => last'.msg = "NotDrawnYet"]_vars

\* A participant of a drawn group has just been shown their recipient,
\* another participant.
C8_Witness ==
    /\ last.op = "reveal" /\ last.msg = "Revealed"
    /\ last.gid \in DOMAIN Store
    /\ Store[last.gid].drawn
    /\ last.ret \in Members(Store[last.gid]) \ {last.arg}
    /\ Store[last.gid].assignments[last.arg] = last.ret

\* C9: a confirmation for a name that has a confirmed hash fails with
\* AlreadyConfirmed and writes nothing, and no step gives a key of
\* participants_confirmed another hash: a hash goes only by being removed.
C9_ConfirmedHashNeverReplaced ==
    [][/\ (last'.op = "confirm" /\ last'.gid \in DOMAIN Store
             /\ last'.arg \in DOMAIN Store[last'.gid].participants_confirmed)
          => (last'.msg = "AlreadyConfirmed" /\ file' = file)
       /\ \A gid \in DOMAIN Store \cap DOMAIN Store' :
          \A n \in DOMAIN Store[gid].participants_confirmed
                     \cap DOMAIN Store'[gid].participants_confirmed :
             Store'[gid].participants_confirmed[n] = Store[gid].participants_confirmed[n]]_vars

\* What "Reiniciar acesso" leaves for a participant: no confirmed hash and
\* the hash of the password shown to the creator as the pending one.
IssuedFor(gid, X) ==
    /\ gid \in DOMAIN Store'
    /\ X \notin DOMAIN Store'[gid].participants_confirmed
    /\ X \in DOMAIN Store'[gid].pending_passwords
    /\ Store'[gid].pending_passwords[X] = hash_password(last'.ret)

\* A confirmation by X that was required to type `token`: the step's result.
ConfirmAgainst(gid, X, token) ==
    IF last'.typed = token
    THEN /\ last'.msg = "Confirmed"
         /\ X \in DOMAIN Store'[gid].participants_confirmed
         /\ Store'[gid].participants_confirmed[X] = hash_password(token)
         /\ X \notin DOMAIN Store'[gid].pending_passwords
    ELSE /\ last'.msg =
              IF strip(last'.typed) = "" THEN "EmptyPassword" ELSE "MustUseIssuedPassword"
         /\ file' = file

\* C10 as stated: after a temporary password is issued for participant X, X
\* has no confirmed hash and the pending hash of the token; from then until
\* X confirms, a confirmation for X with another password fails with
\* MustUseIssuedPassword (EmptyPassword for a blank one) and changes nothing,
\* and one with the issued password records its hash and removes the
\* pending entry.
C10_IssuedPasswordRequiredUntilConfirmed ==
    [][/\ (last'.op = "reset_pw" /\ last'.msg = "TemporaryPassword"
             /\ last'.arg \in Members(Store[last'.gid]))
          => IssuedFor(last'.gid, last'.arg)
       /\ \A i \in issued :
            (last'.op = "confirm" /\ last'.gid = i[1] /\ last'.arg = i[2]
               /\ i[2] \in Members(Store[i[1]]))
            => ConfirmAgainst(i[1], i[2], i[3])]_vars

\* C10 amended: the requirement lasts as long as the pending entry, and the
\* pending entry of a participant goes or changes only when that participant
\* confirms or the creator clears the confirmation of, removes, renames or
\* issues another temporary password for that participant.
C10_IssuedPasswordRequiredWhilePending ==
    [][/\ (last'.op = "reset_pw" /\ last'.msg = "TemporaryPassword"
             /\ last'.arg \in Members(Store[last'.gid]))
          => IssuedFor(last'.gid, last'.arg)
       /\ \A gid \in DOMAIN Store : \A X \in Members(Store[gid]) :
            LET P == Store[gid].pending_passwords IN
            X \in DOMAIN P =>
              /\ (last'.op = "confirm" /\ last'.gid = gid /\ last'.arg = X)
                    => \E token \in Lifecycle.passwords \cup {strip(c) : c \in Lifecycle.customs} :
                          /\ P[X] = hash_password(token)
                          /\ ConfirmAgainst(gid, X, token)
              /\ (gid \notin DOMAIN Store'
                    \/ X \notin DOMAIN Store'[gid].pending_passwords
                    \/ Store'[gid].pending_passwords[X] # P[X])
                    => /\ last'.gid = gid /\ last'.arg = X
                       /\ last'.op \in {"confirm", "clear_confirmation", "remove_participant",
                                        "rename_participant", "reset_pw"}]_vars

\* A participant with a temporary password issued and still pending has just
\* been refused with another password.
C10_Witness ==
    /\ last.op = "confirm" /\ last.msg = "MustUseIssuedPassword"
    /\ last.gid \in DOMAIN Store
    /\ last.arg \in Members(Store[last.gid])
    /\ <<last.gid, last.arg, GeneratedToken>> \in issued
    /\ last.arg \in DOMAIN Store[last.gid].pending_passwords
    /\ Store[last.gid].pending_passwords[last.arg] = hash_password(GeneratedToken)

\* The buttons of the creator panel that change the group.
CreatorOps ==
    {"creator_draw", "save_group_name", "clear_confirmation", "reset_draw",
     "add_participant", "update_creator_pw", "reset_pw", "rename_participant",
     "remove_participant"}

\* C6: a button of the creator panel changes the group only in a session
\* whose creator password, the one it supplied last, hashes to the
\* creator_password_hash the group has when the button is clicked.
C6_CreatorOpsVerifyStoredPassword ==
    [][(last'.op \in CreatorOps /\ last'.saved)
         => /\ last'.gid \in DOMAIN Store
            /\ admin_active(last'.session, last'.gid) # NotAdmin
            /\ "creator_password_hash" \in DOMAIN Store[last'.gid]
            /\ hash_password(admin_active(last'.session, last'.gid))
                  = Store[last'.gid].creator_password_hash]_vars

\* C3: with the file lock available, no script run reaches its save after
\* another run's save completed since its own load.
C3_NoSaveBetweenLoadAndSave ==
    lock # NoLock =>
        \A s \in AllSessions :
           run[s].pc \in {"save_lock", "save_open", "save_dump"} => ~run[s].stale

InFile(s) == run[s].pc \in {"load_read", "save_open", "save_dump"}

\* C5: with the file lock available, no two runs hold the file open at the
\* same time, and no load has read the file while a save was writing it.
C5_LoadAndSaveExclusive ==
    lock # NoLock =>
        /\ \A s \in AllSessions : \A t \in AllSessions \ {s} : ~(InFile(s) /\ InFile(t))
        /\ \A s \in AllSessions : InFile(s) => lock = s
        /\ \A s \in AllSessions : ~run[s].partial

\* One session has truncated the file and is writing it, holding the lock,
\* while the other waits for the lock to read.
C5_Witness ==
    /\ lock = "s1"
    /\ run["s1"].pc = "save_dump" /\ file.state = "torn"
    /\ run["s2"].pc = "load_lock"

\* C11: in every group no two entries of participants are equal when
\* compared without regard to case.
C11_NamesUniqueIgnoringCase ==
    \A gid \in DOMAIN Store :
       LET p == Store[gid].participants IN
       \A i, j \in 1..Len(p) : lower(p[i]) = lower(p[j]) => i = j

\* C12: in every group every key of participants_confirmed is one of the
\* participants.
C12_ConfirmedKeysAreParticipants ==
    \A gid \in DOMAIN Store :
       DOMAIN Store[gid].participants_confirmed \subseteq Members(Store[gid])

\* C13: in every group no name is a key of pending_passwords and of
\* participants_confirmed at once.
C13_PendingAndConfirmedDisjoint ==
    \A gid \in DOMAIN Store :
       DOMAIN setdefault_pending(Store[gid]).pending_passwords
          \cap DOMAIN Store[gid].participants_confirmed = {}

\* C14: in every group, if drawn is false then assignments is empty.
C14_AssignmentsOnlyWhileDrawn ==
    \A gid \in DOMAIN Store :
       ~Store[gid].drawn => DOMAIN Store[gid].assignments = {}

\* "Resetar sorteio" has just been saved for a group with confirmed
\* participants: the group is not drawn and has no assignments.
C14_Witness ==
    /\ last.op = "reset_draw" /\ last.msg = "DrawReset" /\ last.saved
    /\ last.gid \in DOMAIN Store
    /\ ~Store[last.gid].drawn
    /\ DOMAIN Store[last.gid].assignments = {}
    /\ DOMAIN Store[last.gid].participants_confirmed # {}

\* The buttons that change the list of participants.
RosterOps == {"add_participant", "remove_participant", "rename_participant"}

\* C15: a step from a state where a group is drawn leaves its participants
\* as they are, and "Adicionar participante", "Excluir participante" and
\* "Renomear" on a drawn group save nothing.
C15_RosterFrozenWhileDrawn ==
    [][/\ \A gid \in DOMAIN Store :
            Store[gid].drawn
            => /\ gid \in DOMAIN Store'
               /\ Store'[gid].participants = Store[gid].participants
       /\ (last'.op \in RosterOps /\ last'.gid \in DOMAIN Store /\ Store[last'.gid].drawn)
            => /\ ~last'.saved
               /\ file' = file
               /\ last'.msg \in {"AlreadyDrawn", "TickToConfirm", "NotRendered"}
               /\ (last'.op # "rename_participant"
                     /\ admin_active(last'.session, last'.gid) # NotAdmin
                     /\ last'.msg # "TickToConfirm")
                  => last'.msg = "AlreadyDrawn"]_vars

\* The creator has just been refused the removal of a participant of a
\* drawn group.
C15_Witness ==
    /\ last.op = "remove_participant" /\ last.msg = "AlreadyDrawn"
    /\ last.gid \in DOMAIN Store
    /\ Store[last.gid].drawn
    /\ last.arg \in Members(Store[last.gid])

\* C16: a draw button on a group already drawn reports AlreadyDrawn (when it
\* is on the page at all), saves nothing and leaves the file as it is.
C16_DrawOnDrawnGroupRejected ==
    [][(last'.op \in {"auto_draw", "creator_draw"}
          /\ last'.gid \in DOMAIN Store /\ Store[last'.gid].drawn)
         => /\ last'.msg \in {"AlreadyDrawn", "NotRendered"}
            /\ ~last'.saved
            /\ file' = file
            /\ (last'.op = "creator_draw"
                  /\ admin_active(last'.session, last'.gid) # NotAdmin)
               => last'.msg = "AlreadyDrawn"
            /\ (last'.op = "auto_draw"
                  /\ confirmed(Store[last'.gid]) = total(Store[last'.gid]))
               => last'.msg = "AlreadyDrawn"]_vars

\* The creator has just been refused a second draw of a drawn group.
C16_Witness ==
    /\ last.op = "creator_draw" /\ last.msg = "AlreadyDrawn" /\ ~last.saved
    /\ last.gid \in DOMAIN Store
    /\ Store[last.gid].drawn
    /\ CompleteDerangement(Store[last.gid])

\* C17: a draw button on a group that is not drawn and has fewer than two
\* participants reports InsufficientParticipants (when it is on the page at
\* all) and not the outcome of a shuffle loop, saves nothing and leaves the
\* group not drawn and without assignments.
C17_DrawNeedsTwoParticipants ==
    [][(last'.op \in {"auto_draw", "creator_draw"}
          /\ last'.gid \in DOMAIN Store /\ ~Store[last'.gid].drawn
          /\ Len(Store[last'.gid].participants) < 2)
         => /\ last'.msg \in {"InsufficientParticipants", "NotRendered"}
            /\ ~last'.saved
            /\ file' = file
            /\ ~Store'[last'.gid].drawn
            /\ DOMAIN Store'[last'.gid].assignments = {}
            /\ (last'.op = "creator_draw"
                  /\ admin_active(last'.session, last'.gid) # NotAdmin)
               => last'.msg = "InsufficientParticipants"
            /\ (last'.op = "auto_draw"
                  /\ confirmed(Store[last'.gid]) = total(Store[last'.gid]))
               => last'.msg = "InsufficientParticipants"]_vars

\* The automatic draw has just been refused for a group whose only
\* participant, left by a removal, is confirmed.
C17_Witness ==
    /\ last.op = "auto_draw" /\ last.msg = "InsufficientParticipants" /\ ~last.saved
    /\ last.gid \in DOMAIN Store
    /\ Len(Store[last.gid].participants) = 1
    /\ Members(Store[last.gid]) = DOMAIN Store[last.gid].participants_confirmed
    /\ ~Store[last.gid].drawn



(***************************************************************************)
(* C18: one save per successful mutation, none on a rejection              *)
(***************************************************************************)
\* The outcomes shown after a handler changed the group and called save_data.
SuccessOutcomes ==
    {"GroupCreated", "Confirmed", "DrawDone", "GroupRenamed", "ConfirmationCleared",
     "DrawReset", "ParticipantAdded", "CreatorPasswordUpdated", "TemporaryPassword",
     "ParticipantRenamed", "ParticipantRemoved"}

\* What the handler of button `op` can return for `group` in a run in which
\* `arg` is the name selected and `typed` the text typed, over the other
\* inputs of the environment U.
HandlerResults(group, U, op, arg, typed) ==
    CASE op = "confirm" -> {confirm_flow(group, arg, typed)}
      [] op = "reveal"  -> {reveal_flow(group, arg, typed)}
      [] op = "auto_draw" ->
            {auto_draw(group, r.fails, r.bad, r.good) :
               r \in DrawRandomness(group.participants, U)}
      [] op = "creator_draw" ->
            {creator_draw(group, r.fails, r.bad, r.good) :
               r \in DrawRandomness(group.participants, U)}
      [] op = "clear_confirmation" -> {clear_confirmation(group, arg, t) : t \in BOOLEAN}
      [] op = "reset_draw" -> {reset_draw(group, t) : t \in BOOLEAN}
      [] op = "add_participant" -> {add_participant(group, n) : n \in U.names}
      [] op = "reset_pw" -> {reset_pw(group, arg, typed, t) : t \in BOOLEAN}
      [] op = "rename_participant" ->
            {rename_participant(group, arg, n, t) : n \in U.names, t \in BOOLEAN}
      [] op = "remove_participant" -> {remove_participant(group, arg, t) : t \in BOOLEAN}
      [] OTHER -> {}

\* What "Criar grupo" can return on the dictionary `data`.
CreateResults(data, U, op) ==
    IF op # "create" THEN {}
    ELSE {create_group(data, g, c, l, gid) :
            g \in U.group_names, c \in U.creator_passwords, l \in SubSeqs(U.lines),
            gid \in U.gids \ uuids}

C19_FailedSaveReportsNoSuccess ==
    \A s \in AllSessions :
       (run[s].pc = "idle" /\ run[s].save_error) => run[s].msg \notin SuccessOutcomes

\* C20: with the file lock in use and no session between the open and the
\* end of its dump, groups.json holds a whole document; and once a save of
\* some session went through, a load returns a store that is not empty (no
\* operation deletes a group).
C20_FileNeverPartial ==
    (/\ lock # NoLock
     /\ \A s \in AllSessions : run[s].pc # "save_dump"
     /\ \E s \in AllSessions : run[s].saved)
       => file.state = "json" /\ load_data(file) # EmptyMap

(***************************************************************************)
(* C21: "Criar grupo"                                                      *)
(***************************************************************************)
\* The names given in the participants area: the lines that are not blank,
\* trimmed, in order.
GivenNames(lines) ==
    LET cleaned == [i \in 1..Len(lines) |-> join_split(lines[i])]
    IN  SelectSeq(cleaned, LAMBDA c : c # "")

\* The given names that coincide with an earlier one when case is ignored.
Coinciding(names) ==
    {j \in 1..Len(names) : \E i \in 1..(j - 1) : lower(names[i]) = lower(names[j])}

\* What "Criar grupo" owes for one input on the dictionary `data`, where
\* `stored` is the list of names a created group is to hold.
CreateContract(data, res, group_name, creator_password_input, lines, gid, stored) ==
    LET given == GivenNames(lines) IN
    IF \/ group_name = ""
       \/ strip(creator_password_input) = ""
       \/ Coinciding(given) # {}
       \/ Len(given) < 2
    THEN /\ ~res.save
         /\ res.data = data
         /\ res.msg \in {"EmptyGroupName", "EmptyCreatorPassword", "DuplicateNames",
                         "TooFewParticipants"}
         /\ (group_name # "" /\ strip(creator_password_input) # "") =>
               IF Coinciding(given) # {}
               THEN /\ res.msg = "DuplicateNames"
                    /\ {lower(d) : d \in res.duplicates}
                          = {lower(given[j]) : j \in Coinciding(given)}
               ELSE res.msg = "TooFewParticipants"
    ELSE /\ res.save
         /\ res.msg = "GroupCreated"
         /\ gid \notin DOMAIN data
         /\ DOMAIN res.data = DOMAIN data \cup {gid}
         /\ \A g \in DOMAIN data : res.data[g] = data[g]
         /\ res.data[gid].participants = stored
         /\ res.data[gid].participants_confirmed = EmptyMap
         /\ res.data[gid].pending_passwords = EmptyMap
         /\ res.data[gid].assignments = EmptyMap
         /\ res.data[gid].drawn = FALSE

\* A "Criar grupo" step of the specification is one of the results of
\* create_group on the loaded dictionary, saved when it says so.
CreateStep(res) ==
    /\ last'.msg = res.msg
    /\ last'.saved = res.save
    /\ last'.duplicates = res.duplicates
    /\ file' = IF res.save THEN [state |-> "json", doc |-> json_dump(res.data)] ELSE file

\* C21 as stated: "Criar grupo" rejects the whole operation, leaves the
\* dictionary and the file as they were and saves nothing when the group
\* name is empty, the creator password is blank, two given names coincide
\* when case is ignored (these are listed) or fewer than two names are
\* given; otherwise it adds one group under a new identifier, holding the
\* names given, with empty confirmed, pending and assignment maps and
\* drawn = false.
C21_CreateGroupKeepsGivenNames ==
    [][ (last' # last /\ last'.op = "create") =>
          /\ \E res \in CreateResults(Store, Lifecycle, "create") : CreateStep(res)
          /\ \A g \in Lifecycle.group_names, c \in Lifecycle.creator_passwords,
                l \in SubSeqs(Lifecycle.lines), gid \in Lifecycle.gids \ uuids :
                CreateContract(Store, create_group(Store, g, c, l, gid), g, c, l, gid,
                               GivenNames(l))
      ]_vars

\* C21 amended: the same, the group holding the names given with each
\* word capitalised (str.title).
C21_CreateGroupStoresTitledNames ==
    [][ (last' # last /\ last'.op = "create") =>
          /\ \E res \in CreateResults(Store, Lifecycle, "create") : CreateStep(res)
          /\ \A g \in Lifecycle.group_names, c \in Lifecycle.creator_passwords,
                l \in SubSeqs(Lifecycle.lines), gid \in Lifecycle.gids \ uuids :
                CreateContract(Store, create_group(Store, g, c, l, gid), g, c, l, gid,
                               [i \in 1..Len(GivenNames(l)) |-> title(GivenNames(l)[i])])
      ]_vars

\* A creation went through: the file holds the new group, with the names
\* capitalised, nobody confirmed and no draw.
C21_Witness ==
    /\ last.op = "create"
    /\ last.msg = "GroupCreated"
    /\ last.saved
    /\ last.gid \in DOMAIN Store
    /\ Store[last.gid].participants = <<"Ana", "Bia">>
    /\ Store[last.gid].participants_confirmed = EmptyMap
    /\ ~Store[last.gid].drawn

(***************************************************************************)
(* C22: the bound of the shuffle loop                                      *)
(***************************************************************************)
\* C22: a draw makes at most max_attempts shuffles: its loop stands before
\* a shuffle only while fewer than max_attempts have been made.
C22_AtMostMaxAttemptsShuffles ==
    \A s \in AllSessions : InLoop(s) => run[s].attempts < max_attempts

(***************************************************************************)
(* C23, C24, C25: what the creator's edits change and what they leave      *)
(***************************************************************************)
\* Map `new` is map `old` without the keys of `gone`.
MapWithout(new, old, gone) ==
    /\ DOMAIN new = DOMAIN old \ gone
    /\ \A k \in DOMAIN new : new[k] = old[k]

\* Groups `new` and `old` agree on the fields `fields`.
SameFields(new, old, fields) ==
    \A f \in fields : (f \in DOMAIN old <=> f \in DOMAIN new)
                      /\ (f \in DOMAIN old => new[f] = old[f])

\* C23: "Limpar confirmação" for X on a drawn group removes X's confirmed
\* and pending hashes and the assignments entries with X as key or as
\* value; the other entries of the three maps, the participants, the drawn
\* flag, the name and the creator password stay as they were.
C23_ClearAfterDrawRemovesOnlyX ==
    [][ (/\ last' # last
         /\ last'.op = "clear_confirmation"
         /\ last'.saved
         /\ Store[last'.gid].drawn) =>
          LET old == page_group(last'.gid)
              new == file'.doc[last'.gid]
              X   == last'.arg
          IN  /\ file'.state = "json"
              /\ MapWithout(new.participants_confirmed, old.participants_confirmed, {X})
              /\ MapWithout(new.pending_passwords, old.pending_passwords, {X})
              /\ MapWithout(new.assignments, old.assignments,
                            {k \in DOMAIN old.assignments :
                               k = X \/ old.assignments[k] = X})
              /\ new.drawn
              /\ SameFields(new, old, {"participants", "name", "creator_password_hash"})
      ]_vars

\* The confirmation of one of three participants was cleared after the
\* draw: of the three assignments the one between the other two is left.
C23_Witness ==
    /\ last.op = "clear_confirmation"
    /\ last.saved
    /\ last.gid \in DOMAIN Store
    /\ LET G == Store[last.gid] IN
       /\ G.drawn
       /\ Len(G.participants) = 3
       /\ Cardinality(DOMAIN G.assignments) = 1
       /\ last.arg \notin DOMAIN G.assignments
       /\ DOMAIN G.participants_confirmed = Members(G) \ {last.arg}

\* Map `new` is map `old` with the entry of X, if any, moved to Y.
EntryMoved(new, old, X, Y) ==
    /\ X \notin DOMAIN new
    /\ \A k \in (DOMAIN old \cup DOMAIN new) \ {X, Y} :
          k \in DOMAIN old /\ k \in DOMAIN new /\ new[k] = old[k]
    /\ IF X \in DOMAIN old
       THEN Y \in DOMAIN new /\ new[Y] = old[X]
       ELSE (Y \in DOMAIN new <=> Y \in DOMAIN old)
            /\ (Y \in DOMAIN old => new[Y] = old[Y])

\* C24: "Renomear" X on a group not drawn puts the new name Y where X stood
\* in participants, moves X's confirmed hash and pending hash to the key Y
\* and leaves none under X; the entries of the others, the name, the
\* creator password and the flag stay as they were, and the password that
\* was X's is accepted for Y exactly as it was for X.
C24_RenameMovesEntriesToNewName ==
    [][ (/\ last' # last
         /\ last'.op = "rename_participant"
         /\ last'.saved
         /\ ~Store[last'.gid].drawn) =>
          LET old == page_group(last'.gid)
              new == file'.doc[last'.gid]
              X   == last'.arg
          IN  /\ file'.state = "json"
              /\ \E i \in 1..Len(old.participants) :
                    LET Y == new.participants[i] IN
                    /\ old.participants[i] = X
                    /\ Y # X
                    /\ Y \notin Members(old)
                    /\ new.participants = [old.participants EXCEPT ![i] = Y]
                    /\ EntryMoved(new.participants_confirmed, old.participants_confirmed, X, Y)
                    /\ EntryMoved(new.pending_passwords, old.pending_passwords, X, Y)
                    /\ X \in DOMAIN old.participants_confirmed =>
                          \A p \in Lifecycle.passwords :
                             reveal_flow(new, Y, p).msg = reveal_flow(old, X, p).msg
              /\ SameFields(new, old, {"name", "creator_password_hash", "drawn",
                                       "assignments"})
      ]_vars

\* Ana, confirmed, was renamed to ana: the hash of Ana's password stands
\* under the new name, first in the list, and Bia's entry is as it was.
C24_Witness ==
    /\ last.op = "rename_participant"
    /\ last.saved
    /\ last.arg = "Ana"
    /\ last.gid \in DOMAIN Store
    /\ LET G == Store[last.gid] IN
       /\ ~G.drawn
       /\ G.participants = <<"ana", "Bia">>
       /\ DOMAIN G.participants_confirmed = {"ana", "Bia"}
       /\ G.participants_confirmed["ana"] = hash_password("x1")
       /\ G.participants_confirmed["Bia"] = hash_password(GeneratedToken)

\* C25: "Resetar sorteio" empties assignments, clears drawn and leaves
\* participants, both password maps, the name and the creator password as
\* they were; and when every participant of the drawn group had confirmed,
\* the reset group is offered the automatic draw, which goes into its loop.
C25_ResetDrawKeepsConfirmations ==
    [][ (/\ last' # last
         /\ last'.op = "reset_draw"
         /\ last'.saved) =>
          LET old == page_group(last'.gid)
              new == file'.doc[last'.gid]
          IN  /\ file'.state = "json"
              /\ new.assignments = EmptyMap
              /\ ~new.drawn
              /\ SameFields(new, old, {"participants", "participants_confirmed",
                                       "pending_passwords", "name",
                                       "creator_password_hash"})
              /\ (old.drawn /\ Members(old) \subseteq DOMAIN old.participants_confirmed)
                    => auto_draw_guards(new) = ""
      ]_vars

(***************************************************************************)
(* C26: a saved draw and the saves of other script runs                    *)
(***************************************************************************)
\* C26: with the file lock in use, once the draw of a script run was saved,
\* the group in the file stays drawn with the assignments of a whole
\* derangement whatever the other script runs save (no run of this
\* specification resets a draw or clears a confirmation).
C26_SavedDrawSurvivesOtherSaves ==
    lock # NoLock =>
       \A s \in AllSessions :
          (/\ run[s].pc = "idle"
           /\ run[s].op = "auto_draw"
           /\ run[s].saved
           /\ file.state = "json") =>
             /\ run[s].gid \in DOMAIN file.doc
             /\ file.doc[run[s].gid].drawn
             /\ CompleteDerangement(file.doc[run[s].gid])

(***************************************************************************)
(* C27: the scope of administrator mode                                    *)
(***************************************************************************)
\* Session s has the administrator flag of group gid.
FlagOn(s, gid) == gid \in DOMAIN admin_mode[s]

\* C27: a button of the creator panel changes a group only in a session
\* that has the flag of that very group; the flag of session s for group g
\* goes on only by a login of s on the page of g with the password of g's
\* creator, and goes off only by a logout of s on the page of g; it is off
\* right after that logout.
C27_AdminModePerSessionAndGroup ==
    [][ /\ (last' # last /\ last'.op \in CreatorOps /\ last'.saved)
              => FlagOn(last'.session, last'.gid)
        /\ \A s \in AllSessions, g \in Scoping.gids :
              /\ (~FlagOn(s, g) /\ FlagOn(s, g)') =>
                    /\ last'.session = s /\ last'.gid = g
                    /\ last'.op = "login" /\ last'.msg = "AdminOn"
                    /\ g \in DOMAIN Store
                    /\ hash_password(admin_mode'[s][g]) = Store[g].creator_password_hash
              /\ (FlagOn(s, g) /\ ~FlagOn(s, g)') =>
                    /\ last'.session = s /\ last'.gid = g
                    /\ last'.op = "logout"
        /\ (last' # last /\ last'.op = "logout" /\ last'.msg = "AdminOff")
              => last'.gid \notin DOMAIN admin_mode'[last'.session]
      ]_vars

\* Session s1 is in administrator mode on g1 only, both groups have the
\* same creator password, and the creator panel of g2 just refused s1.
C27_Witness ==
    /\ FlagOn("s1", "g1")
    /\ ~FlagOn("s1", "g2")
    /\ ~FlagOn("s2", "g1")
    /\ DOMAIN Store = {"g1", "g2"}
    /\ Store["g1"].creator_password_hash = Store["g2"].creator_password_hash
    /\ last.session = "s1"
    /\ last.gid = "g2"
    /\ last.op \in CreatorOps
    /\ last.msg = "NotRendered"
    /\ ~last.saved

=============================================================================
